---------------------------- MODULE Spec2Model ----------------------------
(***************************************************************************)
(* A model of main.py: the ResearchScraper class (the Semantic Scholar     *)
(* paged client, the arXiv single-request client, the relevance filter,    *)
(* the exporter) and main(), the orchestrator.                             *)
(*                                                                         *)
(* Strings are sequences of one-character strings, so that lower-casing,   *)
(* joining and pattern search are computed as the code computes them.      *)
(* A paper record keeps the fields the pipeline reads after the fetch:     *)
(* title (dedup key, filter), abstract (filter) and source.                *)
(***************************************************************************)
EXTENDS Integers, Sequences, FiniteSets, TLC

VARIABLES
    pc,              \* position in main() / in the running client
    limit,           \* scrape_semantic_scholar's `limit` argument
    offset,          \* scrape_semantic_scholar's `offset` local
    papers,          \* the list `papers` of the running / last client
    s2_papers,       \* main's semantic_scholar_papers
    arxiv_papers,    \* main's arxiv_papers
    all_papers,      \* main's all_papers
    relevant_papers, \* main's relevant_papers
    requests,        \* HTTP requests issued so far, in order
    responses,       \* what each Semantic Scholar request met, in order
    arxiv_resp,      \* what the arXiv request met (NoResp before it)
    files,           \* files written so far, in order
    debug_log,       \* lines given to self.log
    stdout,          \* lines printed by main
    now,             \* the wall clock, in ticks; it advances where the code
                     \* sleeps and while save_results writes (the time a
                     \* request takes is not counted)
    start_time,      \* the clock when the run started
    raised,          \* TRUE once an exception has left a function
    keywords,        \* the keyword list given to filter_relevant_papers
    in_a, in_b       \* the two tables given to concat + drop_duplicates

vars == <<pc, limit, offset, papers, s2_papers, arxiv_papers, all_papers,
          relevant_papers, requests, responses, arxiv_resp, files, debug_log,
          stdout, now, start_time, raised, keywords, in_a, in_b>>

---------------------------------------------------------------------------
(* Bounds of the model *)

\* largest `limit` the client harness passes to scrape_semantic_scholar
MaxLimit == 45
\* clock ticks per second (file-name timestamps have one-second resolution)
TicksPerSec == 2
\* longest table handed to the merge and filter harnesses
MaxTable == 2
\* most keywords handed to the filter harness
MaxKeywords == 2
\* most entry elements in an arXiv feed
MaxEntries == 1

(* Program constants *)

\* page_size = 20
page_size == 20
\* def scrape_semantic_scholar(self, query, limit=100)
DefaultLimit == 100
\* def scrape_arxiv(self, query, max_results=100)
DefaultMaxResults == 100
\* time.sleep(1)
SleepSeconds == 1

---------------------------------------------------------------------------
(* Strings *)

\* a missing value: JSON null / None / NaN in a column
NULL == <<"<null>">>

UpperChars == <<"A","B","C","D","E","F","G","H","I","J","K","L","M",
                "N","O","P","Q","R","S","T","U","V","W","X","Y","Z">>
LowerChars == <<"a","b","c","d","e","f","g","h","i","j","k","l","m",
                "n","o","p","q","r","s","t","u","v","w","x","y","z">>

\* str.lower on one character
LowerChar(c) ==
    IF \E i \in 1..Len(UpperChars) : UpperChars[i] = c
    THEN LowerChars[CHOOSE i \in 1..Len(UpperChars) : UpperChars[i] = c]
    ELSE c

\* str.lower
Lower(s) == [i \in 1..Len(s) |-> LowerChar(s[i])]

\* Series.str.lower(): a missing value stays missing
SeriesLower(x) == IF x = NULL THEN NULL ELSE Lower(x)


\* a key absent from a JSON object (dict.get then yields its default)
MISSING == <<"<missing>">>

\* dict.get(key, ''): the default only for an absent key; null stays null
GetOrEmpty(v) == IF v = MISSING THEN <<>> ELSE v

\* sep.join(parts)
RECURSIVE Join(_, _)
Join(parts, sep) ==
    IF Len(parts) = 0 THEN <<>>
    ELSE IF Len(parts) = 1 THEN parts[1]
    ELSE parts[1] \o sep \o Join(Tail(parts), sep)

---------------------------------------------------------------------------
(* Series.str.contains(pattern, na=False): `pattern` is a regular          *)
(* expression (regex=True is the default) searched anywhere in the value.  *)
(* The pattern alphabet of the model is letters, the space, "." (any one   *)
(* character) and "|" (alternation); other metacharacters are not drawn.   *)

\* the alternatives of a pattern: the pieces between top-level "|"
RECURSIVE Alternatives(_)
Alternatives(p) ==
    IF \A i \in 1..Len(p) : p[i] # "|" THEN <<p>>
    ELSE LET k == CHOOSE i \in 1..Len(p) :
                      p[i] = "|" /\ \A j \in 1..(i-1) : p[j] # "|"
         IN <<SubSeq(p, 1, k-1)>> \o Alternatives(SubSeq(p, k+1, Len(p)))

\* one pattern atom against one character
AtomMatches(a, c) == a = "." \/ a = c

\* alternative `alt` matches s starting at position k
MatchesAt(alt, s, k) ==
    /\ k + Len(alt) - 1 <= Len(s)
    /\ \A j \in 1..Len(alt) : AtomMatches(alt[j], s[k + j - 1])

\* re.search(pattern, s) is not None
RegexSearch(pattern, s) ==
    LET alts == Alternatives(pattern)
    IN \E a \in 1..Len(alts) : \E k \in 1..(Len(s) + 1) : MatchesAt(alts[a], s, k)

\* one cell of Series.str.contains(pattern, na=False)
StrContains(x, pattern) == IF x = NULL THEN FALSE ELSE RegexSearch(pattern, x)

\* pattern = '|'.join(map(str.lower, keywords))
Pattern(kws) == Join([i \in 1..Len(kws) |-> Lower(kws[i])], <<"|">>)

\* one row of `mask`
Mask(row, pattern) ==
    \/ StrContains(SeriesLower(row.title), pattern)
    \/ StrContains(SeriesLower(row.abstract), pattern)

\* df[mask]: the rows whose mask is True, in their order
Select(df, pattern) ==
    LET F[i \in 0..Len(df)] ==
            IF i = 0 THEN <<>>
            ELSE IF Mask(df[i], pattern) THEN Append(F[i - 1], df[i]) ELSE F[i - 1]
    IN F[Len(df)]

\* ResearchScraper.filter_relevant_papers
filter_relevant_papers(df, kws) ==
    IF df = <<>> THEN df ELSE Select(df, Pattern(kws))

---------------------------------------------------------------------------
(* pd.concat([a, b], ignore_index=True) and                                *)
(* drop_duplicates(subset=['title'], inplace=True), keep='first'           *)

Concat(a, b) == a \o b

RECURSIVE DropFrom(_, _)
DropFrom(df, seen) ==
    IF df = <<>> THEN <<>>
    ELSE IF Head(df).title \in seen
         THEN DropFrom(Tail(df), seen)
         ELSE <<Head(df)>> \o DropFrom(Tail(df), seen \cup {Head(df).title})

\* keeps the last row of each title instead of the first
DropDuplicatesKeepLast(df) ==
    LET keep == {i \in 1..Len(df) :
                    \A j \in (i+1)..Len(df) : df[j].title # df[i].title}
        F[i \in 0..Len(df)] ==
            IF i = 0 THEN <<>>
            ELSE IF i \in keep THEN Append(F[i-1], df[i]) ELSE F[i-1]
    IN F[Len(df)]

drop_duplicates(df) == DropFrom(df, {})

---------------------------------------------------------------------------
(* What the two APIs may answer *)

\* values a paper object of a response may carry as its title
TitlePool == << <<"A","I">>, <<"m","a","i","l">>, <<"x">>, NULL, <<>>, MISSING >>
\* values a paper object of a response may carry as its abstract
AbstractPool == << <<>>, <<"o","n"," ","A","i">>, NULL, <<"y">>, MISSING >>

\* the response pages differ in where in the pools their papers start
Seeds == {0, 1}

\* the i-th paper object of a response page
ApiPaper(seed, i) ==
    [title    |-> TitlePool[((seed + i) % Len(TitlePool)) + 1],
     abstract |-> AbstractPool[((seed + i) % Len(AbstractPool)) + 1]]

\* record counts of a page: empty, one, one short of a full page, full
PageCounts == {0, 1, page_size - 1, page_size}

\* A Semantic Scholar request meets one of:
\*   "transport"  requests.get raises
\*   "status"     a response whose status is not 200
\*   "badjson"    status 200, response.json() raises or yields no usable object
\*   "nodata"     status 200, a JSON object without the 'data' key
\*   "ok"         status 200, 'data' holds n paper objects; the mapping of the
\*                bad-th raises (a null entry, a null author list); 0 = none
S2Responses ==
    {[kind |-> k, n |-> 0, seed |-> 0, bad |-> 0] :
        k \in {"transport", "status", "badjson", "nodata"}}
    \cup
    UNION {{[kind |-> "ok", n |-> n, seed |-> sd, bad |-> b] :
                sd \in (IF n = 0 THEN {0} ELSE Seeds),
                b \in {x \in {0, 1, n} : x <= n}} : n \in PageCounts}

\* An arXiv request meets one of "transport", "status", or
\*   "ok"  status 200, a feed of n entry elements; the extraction of the
\*         bad-th raises (an entry without an HTML-type link); 0 = none
ArxivResponses ==
    {[kind |-> k, n |-> 0, seed |-> 0, bad |-> 0] : k \in {"transport", "status"}}
    \cup
    UNION {{[kind |-> "ok", n |-> n, seed |-> sd, bad |-> b] :
                sd \in (IF n = 0 THEN {0} ELSE Seeds),
                b \in {x \in 0..1 : x <= n}} : n \in 0..MaxEntries}

NoResp == [kind |-> "none", n |-> 0, seed |-> 0, bad |-> 0]

---------------------------------------------------------------------------
(* ResearchScraper.scrape_semantic_scholar *)

\* papers.append({...}) for one paper object
S2Record(p) ==
    [title    |-> GetOrEmpty(p.title),
     abstract |-> GetOrEmpty(p.abstract),
     source   |-> "Semantic Scholar"]

\* the try body raises for this response
S2Raises(r) == r.kind \in {"transport", "badjson"} \/ (r.kind = "ok" /\ r.bad > 0)

\* the records the for loop appends before it ends or raises
S2Appended(r) ==
    IF r.kind # "ok" THEN <<>>
    ELSE LET m == IF r.bad > 0 THEN r.bad - 1 ELSE r.n
         IN [i \in 1..m |-> S2Record(ApiPaper(r.seed, i))]

\* len(data.get('data', [])) < page_size
ShortPageWrong(r) == r.n = 0
ShortPage(r) == r.n < page_size

\* the loop is left by a break: exception, non-200, or a short page
S2Breaks(r) == S2Raises(r) \/ r.kind = "status" \/ ShortPage(r)

\* `except Exception` catches whatever the try body raises
S2PropagatesParse(r) == r.kind = "badjson" \/ (r.kind = "ok" /\ r.bad > 0)
S2Propagates(r) == FALSE

\* what self.log receives during one iteration
S2Logged(r) ==
    <<"s2_query">> \o
    (IF S2Raises(r) THEN <<"s2_exception">>
     ELSE IF r.kind = "status" THEN <<"s2_status_error">> ELSE <<>>)

\* while offset < limit
LoopGuardWrong(off, lim) == off <= lim
LoopGuard(off, lim) == off < lim

\* one iteration of the while loop: request, mapping, break or advance + sleep
S2Page ==
    /\ pc = "s2"
    /\ LoopGuard(offset, limit)
    /\ \E r \in S2Responses :
        /\ requests' = Append(requests,
                              [api |-> "s2", offset |-> offset, limit |-> page_size])
        /\ responses' = Append(responses, r)
        /\ debug_log' = debug_log \o S2Logged(r)
        /\ papers' = papers \o S2Appended(r)
        /\ IF S2Raises(r) /\ S2Propagates(r)
           THEN /\ raised' = TRUE
                /\ pc' = "crashed"
                /\ UNCHANGED <<offset, now>>
           ELSE IF S2Breaks(r)
           THEN /\ pc' = "s2_ret"
                /\ UNCHANGED <<offset, now, raised>>
           ELSE /\ offset' = offset + page_size
                /\ now' = now + SleepSeconds * TicksPerSec
                /\ pc' = "s2"
                /\ UNCHANGED raised
    /\ UNCHANGED <<limit, s2_papers, arxiv_papers, all_papers, relevant_papers,
                   arxiv_resp, files, stdout, start_time, keywords, in_a, in_b>>

\* the loop ends (guard false or break); return pd.DataFrame(papers), and
\* main prints the count
S2Return ==
    /\ \/ pc = "s2_ret"
       \/ pc = "s2" /\ ~LoopGuard(offset, limit)
    /\ s2_papers' = papers
    /\ stdout' = Append(stdout, [msg |-> "s2_found", n |-> Len(papers)])
    /\ papers' = <<>>
    /\ pc' = "arxiv"
    /\ UNCHANGED <<limit, offset, arxiv_papers, all_papers, relevant_papers,
                   requests, responses, arxiv_resp, files, debug_log, now,
                   start_time, raised, keywords, in_a, in_b>>

---------------------------------------------------------------------------
(* ResearchScraper.scrape_arxiv *)

\* the module imports requests, pandas, time, random, datetime, os, json and
\* urllib.parse.quote; the name BeautifulSoup is bound nowhere, so evaluating
\* it raises NameError
BeautifulSoupDefined == FALSE

\* str.strip()
RECURSIVE LStrip(_)
LStrip(s) == IF s # <<>> /\ Head(s) = " " THEN LStrip(Tail(s)) ELSE s
RECURSIVE RStrip(_)
RStrip(s) ==
    IF s # <<>> /\ s[Len(s)] = " " THEN RStrip(SubSeq(s, 1, Len(s) - 1)) ELSE s
Strip(s) == RStrip(LStrip(s))

ArxivTitlePool == << <<" ","A","I"," ">>, <<"x">>, <<"A","I">> >>
ArxivSummaryPool == << <<"y"," ">>, <<>> >>

\* the i-th entry element of a feed
ArxivEntry(seed, i) ==
    [title   |-> ArxivTitlePool[((seed + i) % Len(ArxivTitlePool)) + 1],
     summary |-> ArxivSummaryPool[((seed + i) % Len(ArxivSummaryPool)) + 1]]

\* papers.append({...}) for one entry
ArxivRecord(e) ==
    [title |-> Strip(e.title), abstract |-> Strip(e.summary), source |-> "arXiv"]

\* the try body raises for this response
ArxivRaises(r) ==
    \/ r.kind = "transport"
    \/ r.kind = "ok" /\ (~BeautifulSoupDefined \/ r.bad > 0)

\* the records appended before the loop ends or something raises
ArxivAppended(r) ==
    IF r.kind = "ok" /\ BeautifulSoupDefined
    THEN LET m == IF r.bad > 0 THEN r.bad - 1 ELSE r.n
         IN [i \in 1..m |-> ArxivRecord(ArxivEntry(r.seed, i))]
    ELSE <<>>

\* `except Exception` catches whatever the try body raises
ArxivPropagates(r) == FALSE

ArxivLogged(r) ==
    <<"arxiv_query">> \o
    (IF ArxivRaises(r) THEN <<"arxiv_exception">>
     ELSE IF r.kind = "status" THEN <<"arxiv_status_error">> ELSE <<>>)

\* the whole of scrape_arxiv, and main's print of the count
ScrapeArxiv ==
    /\ pc = "arxiv"
    /\ \E r \in ArxivResponses :
        /\ requests' = Append(requests,
                              [api |-> "arxiv", offset |-> 0,
                               limit |-> DefaultMaxResults])
        /\ arxiv_resp' = r
        /\ debug_log' = debug_log \o ArxivLogged(r)
        /\ IF ArxivRaises(r) /\ ArxivPropagates(r)
           THEN /\ raised' = TRUE
                /\ pc' = "crashed"
                /\ UNCHANGED <<arxiv_papers, stdout>>
           ELSE /\ arxiv_papers' = ArxivAppended(r)
                /\ stdout' = Append(stdout, [msg |-> "arxiv_found",
                                             n |-> Len(ArxivAppended(r))])
                /\ pc' = "concat"
                /\ UNCHANGED raised
    /\ UNCHANGED <<limit, offset, papers, s2_papers, all_papers, relevant_papers,
                   responses, files, now, start_time, keywords, in_a, in_b>>

---------------------------------------------------------------------------
(* ResearchScraper.save_results *)

base_folder == "research_papers"

\* create_folders: the directories that exist after construction
Folders == {base_folder, "research_papers/semantic_scholar",
            "research_papers/arxiv", "research_papers/core"}

\* strftime('%Y%m%d_%H%M%S'): the clock cut to whole seconds
Timestamp(t) == t \div TicksPerSec

\* if df.empty: log and return
SaveSkipsNever(df) == FALSE
SaveSkips(df) == df = <<>>

\* the timestamp in a file's name: base_path is built once, from the clock
\* read at the top of save_results, and reused for every file
FileStampAtWrite(t_call, t_write) == Timestamp(t_write)
FileStamp(t_call, t_write) == Timestamp(t_call)

Suffixes == <<".csv", ".xlsx", ".json", "_summary.txt">>

\* the files save_results writes; each write takes d ticks
SavedFiles(filename, t_call, d) ==
    [k \in 1..Len(Suffixes) |->
        [folder |-> base_folder,
         name   |-> filename,
         ts     |-> FileStamp(t_call, t_call + (k - 1) * d),
         suffix |-> Suffixes[k]]]

---------------------------------------------------------------------------
(* main *)

MainKeywords ==
    << <<"b","l","o","c","k","c","h","a","i","n">>,
       <<"a","r","t","i","f","i","c","i","a","l"," ",
         "i","n","t","e","l","l","i","g","e","n","c","e">>,
       <<"A","I">>,
       <<"s","m","a","r","t"," ","c","o","n","t","r","a","c","t","s">>,
       <<"a","u","t","o","n","o","m","o","u","s"," ","s","y","s","t","e","m","s">> >>

\* if not all_papers.empty
BranchAlways(df) == "dedup"
Branch(df) == IF df # <<>> THEN "dedup" ELSE "nopapers"

\* all_papers = pd.concat([...]); print; the branch on all_papers.empty
MainConcat ==
    /\ pc = "concat"
    /\ all_papers' = Concat(s2_papers, arxiv_papers)
    /\ stdout' = Append(stdout, [msg |-> "total", n |-> Len(all_papers')])
    /\ pc' = Branch(all_papers')
    /\ UNCHANGED <<limit, offset, papers, s2_papers, arxiv_papers,
                   relevant_papers, requests, responses, arxiv_resp, files,
                   debug_log, now, start_time, raised, keywords, in_a, in_b>>

\* all_papers.drop_duplicates(subset=['title'], inplace=True); print
MainDedup ==
    /\ pc = "dedup"
    /\ all_papers' = drop_duplicates(all_papers)
    /\ stdout' = Append(stdout, [msg |-> "after_dedup", n |-> Len(all_papers')])
    /\ pc' = "filter"
    /\ UNCHANGED <<limit, offset, papers, s2_papers, arxiv_papers,
                   relevant_papers, requests, responses, arxiv_resp, files,
                   debug_log, now, start_time, raised, keywords, in_a, in_b>>

\* relevant_papers = scraper.filter_relevant_papers(all_papers, keywords); print
MainFilter ==
    /\ pc = "filter"
    /\ relevant_papers' = filter_relevant_papers(all_papers, keywords)
    /\ stdout' = Append(stdout, [msg |-> "relevant", n |-> Len(relevant_papers')])
    /\ pc' = "save"
    /\ UNCHANGED <<limit, offset, papers, s2_papers, arxiv_papers, all_papers,
                   requests, responses, arxiv_resp, files, debug_log, now,
                   start_time, raised, keywords, in_a, in_b>>

\* scraper.save_results(relevant_papers, 'blockchain_ai_research')
MainSave ==
    /\ pc = "save"
    /\ IF SaveSkips(relevant_papers)
       THEN /\ debug_log' = Append(debug_log, "no_results")
            /\ UNCHANGED <<files, now>>
       ELSE \E d \in {0, 1} :
            /\ files' = files \o SavedFiles("blockchain_ai_research", now, d)
            /\ debug_log' = Append(debug_log, "saved")
            /\ now' = now + Len(Suffixes) * d
    /\ pc' = "done"
    /\ UNCHANGED <<limit, offset, papers, s2_papers, arxiv_papers, all_papers,
                   relevant_papers, requests, responses, arxiv_resp, stdout,
                   start_time, raised, keywords, in_a, in_b>>

\* print("No papers found. Check debug logs for details.")
MainNoPapers ==
    /\ pc = "nopapers"
    /\ stdout' = Append(stdout, [msg |-> "no_papers", n |-> 0])
    /\ pc' = "done"
    /\ UNCHANGED <<limit, offset, papers, s2_papers, arxiv_papers, all_papers,
                   relevant_papers, requests, responses, arxiv_resp, files,
                   debug_log, now, start_time, raised, keywords, in_a, in_b>>

---------------------------------------------------------------------------
(* Specifications *)

\* the state in which a function under study is entered
Entry(p, lim, kws, a, b, s2, ax, all, t) ==
    /\ pc = p
    /\ limit = lim
    /\ offset = 0
    /\ papers = <<>>
    /\ s2_papers = s2
    /\ arxiv_papers = ax
    /\ all_papers = all
    /\ relevant_papers = <<>>
    /\ requests = <<>>
    /\ responses = <<>>
    /\ arxiv_resp = NoResp
    /\ files = <<>>
    /\ debug_log = <<>>
    /\ stdout = <<>>
    /\ now = t
    /\ start_time = t
    /\ raised = FALSE
    /\ keywords = kws
    /\ in_a = a
    /\ in_b = b

\* the run starts at any point within a second
StartTimes == 0..(TicksPerSec - 1)

\* main(): scraper.scrape_semantic_scholar(search_query) with the default limit
InitMain ==
    \E t \in StartTimes :
        Entry("s2", DefaultLimit, MainKeywords, <<>>, <<>>, <<>>, <<>>, <<>>, t)

NextMain ==
    \/ S2Page
    \/ S2Return
    \/ ScrapeArxiv
    \/ MainConcat
    \/ MainDedup
    \/ MainFilter
    \/ MainSave
    \/ MainNoPapers

SpecMain == InitMain /\ [][NextMain]_vars

Spec == SpecMain

\* the two clients called one after the other, the first with any limit
InitClients ==
    \E lim \in 0..MaxLimit :
        Entry("s2", lim, MainKeywords, <<>>, <<>>, <<>>, <<>>, <<>>, 0)

NextClients ==
    \/ S2Page
    \/ S2Return
    \/ ScrapeArxiv

SpecClients == InitClients /\ [][NextClients]_vars

\* tables of at most MaxTable rows
TablesOf(rows) == UNION {[1..k -> rows] : k \in 0..MaxTable}

MergeRows ==
    [title : {<<"a">>, <<"A">>, NULL}, abstract : {<<>>},
     source : {"Semantic Scholar", "arXiv"}]

\* concat + drop_duplicates as main applies them, on any two tables
InitMerge ==
    \E a \in TablesOf(MergeRows), b \in TablesOf(MergeRows) :
        Entry("concat", 0, MainKeywords, a, b, a, b, <<>>, 0)

NextMerge ==
    \/ MainConcat
    \/ MainDedup

SpecMerge == InitMerge /\ [][NextMerge]_vars

FilterRows ==
    [title : {<<"A","b">>, <<>>, NULL},
     abstract : {<<"b">>, NULL},
     source : {"Semantic Scholar"}]

KeywordPool == {<<"a">>, <<"A","B">>, <<"b">>, <<".">>, <<>>}

KeywordLists == UNION {[1..k -> KeywordPool] : k \in 0..MaxKeywords}

\* filter_relevant_papers, then save_results, on any table and keyword list
InitFilter ==
    \E df \in TablesOf(FilterRows), kws \in KeywordLists :
        Entry("filter", 0, kws, <<>>, <<>>, <<>>, <<>>, df, 0)

NextFilter ==
    \/ MainFilter
    \/ MainSave

SpecFilter == InitFilter /\ [][NextFilter]_vars

---------------------------------------------------------------------------
(* Properties of scrape_semantic_scholar and scrape_arxiv (SpecClients) *)

\* the Semantic Scholar requests issued so far
S2Requests == SelectSeq(requests, LAMBDA q : q.api = "s2")
ArxivRequests == SelectSeq(requests, LAMBDA q : q.api = "arxiv")

\* the table scrape_semantic_scholar has built / has returned
S2Table == IF pc \in {"s2", "s2_ret"} THEN papers ELSE s2_papers

\* every record a response page carries, mapped to the common shape
PageRecords(r) == [i \in 1..r.n |-> S2Record(ApiPaper(r.seed, i))]

\* the first m rows / the last m rows of a table
FirstRows(t, m) == SubSeq(t, 1, m)
LastRows(t, m) == SubSeq(t, Len(t) - m + 1, Len(t))

\* a 200 response carrying fewer than page_size records
IsShortPage(r) == r.kind \in {"ok", "nodata"} /\ r.n < page_size

\* the number of records of a page mapped before anything raises
Mapped(r) == IF r.bad > 0 THEN r.bad - 1 ELSE r.n

\* C1 as stated: once a page response carries fewer than 20 records, no
\* further page request is issued in that fetch, and all the records of that
\* short page are in the returned table.
C1_ShortPageStopsAllIncluded ==
    \A k \in 1..Len(responses) :
        IsShortPage(responses[k]) =>
            /\ k = Len(responses)
            /\ Len(S2Requests) = k
            /\ pc # "s2"
            /\ Len(S2Table) >= responses[k].n
            /\ LastRows(S2Table, responses[k].n) = PageRecords(responses[k])

\* C1 amended: once a page response carries fewer than 20 records, no further
\* page request is issued in that fetch, and the records of that short page
\* mapped before any exception raised while mapping it (all of them when
\* nothing raises) are the last rows of the returned table.
C1_ShortPageStops ==
    \A k \in 1..Len(responses) :
        IsShortPage(responses[k]) =>
            LET m == Mapped(responses[k])
            IN /\ k = Len(responses)
               /\ Len(S2Requests) = k
               /\ pc # "s2"
               /\ Len(S2Table) >= m
               /\ LastRows(S2Table, m) = FirstRows(PageRecords(responses[k]), m)

\* a fetch that returned after a full page and then a page of 19 records
C1_Witness ==
    /\ pc = "arxiv"
    /\ Len(responses) = 2
    /\ responses[2].kind = "ok" /\ responses[2].n = page_size - 1
    /\ responses[2].bad = 0
    /\ Len(s2_papers) = 2 * page_size - 1

\* ceil(a / b) for a >= 0, b > 0
CeilDiv(a, b) == (a + b - 1) \div b

\* C9: for every limit L >= 0 and every sequence of responses the client
\* issues at most ceil(L/20) page requests, the k-th at offset 20*(k-1), every
\* requested offset below L (so none twice, and none when L = 0), and the
\* fetch can always take its next step until it has returned.
C9_BoundedPaging ==
    /\ Len(S2Requests) <= CeilDiv(limit, page_size)
    /\ \A k \in 1..Len(S2Requests) :
          /\ S2Requests[k].offset = page_size * (k - 1)
          /\ S2Requests[k].offset < limit
    /\ \A j, k \in 1..Len(S2Requests) :
          j < k => S2Requests[j].offset < S2Requests[k].offset
    /\ (limit = 0 => S2Requests = <<>>)
    /\ (pc \in {"s2", "s2_ret"} => ENABLED (S2Page \/ S2Return))

\* a fetch with limit 45 that has issued its third and last request and returned
C9_Witness ==
    /\ limit = MaxLimit
    /\ Len(S2Requests) = CeilDiv(MaxLimit, page_size)
    /\ Len(S2Requests) >= 2
    /\ pc = "arxiv"

\* C10 as stated: with pages of at most 20 records, the returned table holds
\* at most `limit` records.
C10_LimitRespected ==
    pc \notin {"s2", "s2_ret"} => Len(s2_papers) <= limit

\* a response that is a failure for scrape_semantic_scholar
S2Failure(r) == r.kind = "status" \/ S2Raises(r)

\* the records of the pages 1..k of the responses, every page complete
RECURSIVE FullPages(_, _)
FullPages(rs, k) ==
    IF k = 0 THEN <<>> ELSE FullPages(rs, k - 1) \o PageRecords(rs[k])

\* t is the first rows of u
IsPrefix(t, u) == Len(t) <= Len(u) /\ t = FirstRows(u, Len(t))

\* a response that is a failure for scrape_arxiv
ArxivFailure(r) == r.kind = "status" \/ ArxivRaises(r)

\* C4: in both clients, after a non-200 status or an exception the client
\* has logged, issues no further request (no retry), and returns normally
\* with exactly the records accumulated before the failure; no exception
\* leaves either client.
C4_FailureHandling ==
    /\ ~raised /\ pc # "crashed"
    /\ \A k \in 1..Len(responses) :
          S2Failure(responses[k]) =>
              /\ k = Len(responses)
              /\ Len(S2Requests) = k
              /\ pc # "s2"
              /\ S2Table = FullPages(responses, k - 1)
                             \o FirstRows(PageRecords(responses[k]),
                                          IF responses[k].kind = "ok"
                                          THEN responses[k].bad - 1 ELSE 0)
              /\ \E i \in 1..Len(debug_log) :
                    debug_log[i] \in {"s2_exception", "s2_status_error"}
    /\ (arxiv_resp # NoResp /\ ArxivFailure(arxiv_resp)) =>
          /\ Len(ArxivRequests) = 1
          /\ pc = "concat"
          /\ (arxiv_resp.kind # "ok" => arxiv_papers = <<>>)
          /\ IsPrefix(arxiv_papers,
                      [i \in 1..arxiv_resp.n |->
                          ArxivRecord(ArxivEntry(arxiv_resp.seed, i))])
          /\ \E i \in 1..Len(debug_log) :
                debug_log[i] \in {"arxiv_exception", "arxiv_status_error"}

\* the first client failed on the 20th record of its second page and returned
\* 39 records; the second met a non-200 status and returned
C4_Witness ==
    /\ pc = "concat"
    /\ Len(responses) = 2
    /\ responses[2].kind = "ok" /\ responses[2].bad = page_size
    /\ Len(s2_papers) = 2 * page_size - 1
    /\ arxiv_resp.kind = "status"
    /\ arxiv_papers = <<>>

\* C5 as stated: scrape_arxiv issues exactly one request and, on status 200
\* with a well-formed feed of n entries, returns exactly n records, one per
\* entry in feed order, each with source 'arXiv'.
C5_OneRecordPerEntry ==
    (pc = "concat" /\ arxiv_resp.kind = "ok" /\ arxiv_resp.bad = 0) =>
        /\ Len(ArxivRequests) = 1
        /\ Len(arxiv_papers) = arxiv_resp.n
        /\ \A i \in 1..Len(arxiv_papers) :
              /\ arxiv_papers[i] = ArxivRecord(ArxivEntry(arxiv_resp.seed, i))
              /\ arxiv_papers[i].source = "arXiv"

---------------------------------------------------------------------------
(* Properties of concat + drop_duplicates (SpecMerge) *)

\* the rows of t at the positions in idx, in increasing position order
PickRows(t, idx) ==
    LET F[i \in 0..Len(t)] ==
            IF i = 0 THEN <<>>
            ELSE IF i \in idx THEN Append(F[i - 1], t[i]) ELSE F[i - 1]
    IN F[Len(t)]

\* C2: the output of concat + drop_duplicates on 'title' is the concatenation
\* (first table's rows before the second's, order kept) without every row
\* whose title equals the title of an earlier row; so its length is at most
\* the sum of the input lengths, and of every title of the inputs exactly one
\* row survives, the first in concatenation order.
C2_MergeKeepsFirst ==
    pc \in {"filter", "nopapers"} =>
        LET inp == in_a \o in_b
            first == {i \in 1..Len(inp) :
                         \A j \in 1..(i - 1) : inp[j].title # inp[i].title}
        IN /\ Len(all_papers) <= Len(in_a) + Len(in_b)
           /\ all_papers = PickRows(inp, first)
           /\ \A i \in 1..Len(inp) :
                 Cardinality({k \in 1..Len(all_papers) :
                                 all_papers[k].title = inp[i].title}) = 1
           /\ \A i \in first : \E k \in 1..Len(all_papers) : all_papers[k] = inp[i]

\* both tables hold a row of the same title, the rows differ, and the merge
\* has dropped the second table's
C2_Witness ==
    /\ pc = "filter"
    /\ Len(in_a) = MaxTable /\ Len(in_b) = MaxTable
    /\ in_a[1].title = in_b[1].title
    /\ in_a[1].source # in_b[1].source
    /\ in_a[2].title # in_a[1].title
    /\ Len(all_papers) < Len(in_a) + Len(in_b)

---------------------------------------------------------------------------
(* Properties of filter_relevant_papers and save_results (SpecFilter) *)

\* needle occurs in hay as a substring
IsSubstring(needle, hay) ==
    \E k \in 1..(Len(hay) - Len(needle) + 1) :
        SubSeq(hay, k, k + Len(needle) - 1) = needle

\* the field contains the keyword as a case-insensitive substring
ContainsKeyword(field, kw) ==
    field # NULL /\ IsSubstring(Lower(kw), Lower(field))

\* the row's title or abstract contains at least one of the keywords
Relevant(row, kws) ==
    \E i \in 1..Len(kws) :
        ContainsKeyword(row.title, kws[i]) \/ ContainsKeyword(row.abstract, kws[i])

\* C3 as stated: a row is in the output iff its title or its abstract
\* contains at least one keyword as a case-insensitive substring; a row whose
\* title and abstract are both empty or missing is never in the output; the
\* retained rows keep their relative order.
C3_FilterIffSubstring ==
    pc \in {"save", "done"} =>
        /\ relevant_papers =
              PickRows(all_papers,
                       {i \in 1..Len(all_papers) : Relevant(all_papers[i], keywords)})
        /\ \A k \in 1..Len(relevant_papers) :
              ~ (/\ relevant_papers[k].title \in {NULL, <<>>}
                 /\ relevant_papers[k].abstract \in {NULL, <<>>})

\* C6: save_results called with an empty table writes no file and returns
\* without error; called with a non-empty table it writes exactly the four
\* artifacts <base>_<timestamp>.csv, .xlsx, .json and _summary.txt, all of
\* them in the base folder and none in a per-source subdirectory.
C6_SaveIffNonEmpty ==
    /\ ~raised
    /\ (pc # "done" => files = <<>>)
    /\ (pc = "done" /\ relevant_papers = <<>> => files = <<>>)
    /\ (pc = "done" /\ relevant_papers # <<>> =>
           /\ Len(files) = 4
           /\ [k \in 1..4 |-> files[k].suffix]
                  = <<".csv", ".xlsx", ".json", "_summary.txt">>
           /\ \A k \in 1..4 :
                 /\ files[k].folder = "research_papers"
                 /\ files[k].folder \in Folders
                 /\ files[k].name = "blockchain_ai_research"
                 /\ files[k].ts = files[1].ts)

\* save_results was called with the empty table the filter left of a
\* non-empty one, and returned
C6_Witness ==
    /\ pc = "done"
    /\ all_papers # <<>>
    /\ relevant_papers = <<>>
    /\ files = <<>>
    /\ debug_log = <<"no_results">>

---------------------------------------------------------------------------
(* Properties of main (SpecMain) *)

\* what main has printed so far, without the counts
Printed == [i \in 1..Len(stdout) |-> stdout[i].msg]

FullRun == <<"s2_found", "arxiv_found", "total", "after_dedup", "relevant">>
EmptyRun == <<"s2_found", "arxiv_found", "total", "no_papers">>

C8_TimestampIsRunStart ==
    \A k \in 1..Len(files) :
        /\ files[k].ts = files[1].ts
        /\ files[k].ts = Timestamp(start_time)

\* C8 amended: the four artifacts of one save_results call carry the same
\* timestamp in their names, and that timestamp is the clock read when
\* save_results is entered (the time at which the export is reached, at or
\* after the run's start time), whatever time the writes themselves take.
C8_TimestampIsExportTime ==
    [][files' # files =>
          /\ Len(files') = 4
          /\ \A k \in 1..4 : files'[k].ts = Timestamp(now)
          /\ Timestamp(now) >= Timestamp(start_time)]_vars

\* the export was reached in a later second than the run's start, and the
\* clock passed into yet another second while the files were written
C8_Witness ==
    /\ Len(files) = 4
    /\ files[1].ts > Timestamp(start_time)
    /\ files[4].ts = files[1].ts
    /\ Timestamp(now) > files[4].ts

=============================================================================
